---- MODULE Spec2Model ----
(***************************************************************************)
(* Model of pymatgen/util/plotting.py: the helpers pretty_plot,            *)
(* get_ax_fig_plt, get_ax3d_fig_plt, get_axarray_fig_plt and the decorator *)
(* add_fig_kwargs.  The plotting library is represented by its pyplot      *)
(* state (the managed figures, their axes, the current figure) and by the  *)
(* ordered log of the library calls that one call of a helper makes.       *)
(*                                                                         *)
(* Python values are tagged records [t |-> type, v |-> value].  A number   *)
(* Num(n) stands for the rational n / Scale, so that widths that are not   *)
(* whole inches are part of the model.                                     *)
(***************************************************************************)
EXTENDS Integers, Sequences, FiniteSets, TLC

VARIABLES figs, axes, current, dicts, consumed, last

vars == <<figs, axes, current, dicts, consumed, last>>

(* ---------------------------- bounds ----------------------------------- *)
Scale == 2
MaxWidth == 8
MaxFigs == 2
MaxAxArray == 2
MaxGrid == 2

(* ------------------------- Python values ------------------------------- *)
None == [t |-> "none"]
Omitted == [t |-> "omitted"]
Bool(b) == [t |-> "bool", v |-> b]
Str(s) == [t |-> "str", v |-> s]
Num(n) == [t |-> "num", v |-> n]
PyInt(k) == Num(Scale * k)
Fig(i) == [t |-> "fig", v |-> i]
Ax(i) == [t |-> "ax", v |-> i]
Dict(d) == [t |-> "dict", v |-> d]
Array(shape, data) == [t |-> "array", shape |-> shape, data |-> data]
Plt == [t |-> "plt"]

\* Python truth value of x, as used by "if not height", "if savefig", "if show"
Truthy(x) ==
    CASE x.t = "none" -> FALSE
      [] x.t = "bool" -> x.v
      [] x.t = "str" -> x.v # ""
      [] x.t = "num" -> x.v # 0
      [] OTHER -> TRUE

\* one call into the plotting library (or of the wrapped function)
Call(f, on, a) == [f |-> f, on |-> on, a |-> a]

(* ----------------------- the plotting library -------------------------- *)
\* A library state L is [figs, axes, current, log].
NewAxes(fig, proj) ==
    [fig |-> fig, proj |-> proj, title |-> "", xlabel |-> "", ylabel |-> ""]

\* pyplot gets a new figure, which becomes the current one
new_figure(L) ==
    [L EXCEPT !.figs = Append(@, [curax |-> 0]),
              !.current = Len(L.figs) + 1]

\* plt.figure(...), called with the arguments a
figure(L, a) ==
    new_figure([L EXCEPT !.log = Append(@, Call("figure", "plt", a))])

\* plt.gcf(): the current figure; pyplot makes one when there is none
gcf(L) ==
    LET L1 == [L EXCEPT !.log = Append(@, Call("gcf", "plt", <<>>))]
    IN IF L.current = 0 THEN new_figure(L1) ELSE L1

\* an axes object is added to figure fig and becomes its current axes
add_axes(L, fig, proj, f) ==
    [L EXCEPT !.axes = Append(@, NewAxes(fig, proj)),
              !.figs[fig].curax = Len(L.axes) + 1,
              !.log = Append(@, Call(f, Fig(fig), <<Str(proj)>>))]

\* plt.gca(): the current axes of the current figure, made when missing
gca(L) ==
    LET L1 == gcf([L EXCEPT !.log = Append(@, Call("gca", "plt", <<>>))])
    IN IF L1.figs[L1.current].curax = 0
       THEN add_axes(L1, L1.current, "2d", "add_subplot")
       ELSE L1

curax(L) == L.figs[L.current].curax

\* a library call that changes no pyplot state the model keeps
libcall(L, f, on, a) == [L EXCEPT !.log = Append(@, Call(f, on, a))]

\* ax.set_title(text, size=...), ax.set_xlabel, ax.set_ylabel
set_text(L, ax, field, text, size) ==
    [L EXCEPT !.axes[ax] = [@ EXCEPT ![field] = text],
              !.log = Append(@, Call("set_" \o field, Ax(ax), <<Str(text), size>>))]

Lib == [figs |-> figs, axes |-> axes, current |-> current, log |-> <<>>]

\* pyplot's state when the call started
Pre == [figs |-> figs, axes |-> axes, current |-> current]

SetLib(L) ==
    /\ figs' = L.figs
    /\ axes' = L.axes
    /\ current' = L.current

(* ----------------------------- pretty_plot ----------------------------- *)
\* floor of the square root of m, searched between lo and hi
Isqrt(m, lo, hi) == CHOOSE r \in lo..hi : r * r <= m /\ (r + 1) * (r + 1) > m

\* round(width * 2.5) in place of int(width * 2.5)
ticksize_round(width) == PyInt((5 * width.v + Scale) \div (2 * Scale))

\* int(width * 2.5)
ticksize(width) == PyInt((5 * width.v) \div (2 * Scale))

\* round(width * golden_ratio) in place of int(width * golden_ratio)
golden_height_round(width) ==
    PyInt((Isqrt(5 * width.v * width.v, 2 * width.v, 3 * width.v) - width.v + Scale)
          \div (2 * Scale))

\* int(width * golden_ratio), golden_ratio = (sqrt(5) - 1) / 2
golden_height(width) ==
    PyInt((Isqrt(5 * width.v * width.v, 2 * width.v, 3 * width.v) - width.v) \div (2 * Scale))

\* if not height: height = int(width * golden_ratio)
height_used(width, height) ==
    IF ~Truthy(height) THEN golden_height(width) ELSE height

\* width * 4
titlesize(width) == Num(4 * width.v)

\* int(width * 3)
labelsize(width) == PyInt((3 * width.v) \div Scale)

\* the title text set_title is given: ax.get_title()
get_text(L, ax, field) == L.axes[ax][field]

DefaultCycle == <<Str("qualitative"), Str("Set1_9")>>

pretty_body(L, width, height, plt, dpi, color_cycle) ==
    LET h == height_used(width, height)
        L1 == IF plt = None
              THEN LET A == figure(L, <<width, h, Str("w"), dpi>>)
                       B == gca(A)
                   IN libcall(B, "set_prop_cycle", Ax(curax(B)), <<color_cycle[2]>>)
              ELSE LET A == gcf(L)
                   IN libcall(A, "set_size_inches", Fig(A.current), <<width, h>>)
        L2 == libcall(L1, "xticks", "plt", <<ticksize(width)>>)
        L3 == libcall(L2, "yticks", "plt", <<ticksize(width)>>)
        L4 == gca(L3)
        ax == curax(L4)
        L5 == set_text(L4, ax, "title", get_text(L4, ax, "title"), titlesize(width))
        L6 == set_text(L5, ax, "xlabel", get_text(L5, ax, "xlabel"), labelsize(width))
        L7 == set_text(L6, ax, "ylabel", get_text(L6, ax, "ylabel"), labelsize(width))
    IN L7

Widths == {Num(n) : n \in 1..(MaxWidth * Scale)}
Heights == {None, Num(0), Num(5)}
PltArgs == {None, Plt}

PrettyCall(op, width, height, plt) ==
    LET L == pretty_body(Lib, width, height, plt, None, DefaultCycle)
    IN /\ Len(L.figs) <= MaxFigs
       /\ SetLib(L)
       /\ last' = [op |-> op,
                   args |-> [width |-> width, height |-> height, plt |-> plt],
                   ret |-> Plt, exc |-> "", log |-> L.log, pre |-> Pre]
       /\ UNCHANGED <<dicts, consumed>>

pretty_plot ==
    \E width \in Widths, height \in Heights, plt \in PltArgs :
        PrettyCall("pretty_plot", width, height, plt)

\* the deprecated stub: return pretty_plot(*args, **kwargs)
get_publication_quality_plot ==
    \E width \in Widths, height \in Heights, plt \in PltArgs :
        PrettyCall("get_publication_quality_plot", width, height, plt)

(* ------------------- get_ax_fig_plt, get_ax3d_fig_plt ------------------ *)
AxArgs == {None} \cup {Ax(i) : i \in 1..Len(axes)}

\* the body with the test of ax left out: a figure and axes are always built
ax_fig_always_new(L, ax, proj, f) ==
    LET A == figure(L, <<>>)
        B == add_axes(A, A.current, proj, f)
    IN [L |-> B, ret |-> <<Ax(curax(B)), Fig(B.current), Plt>>]

\* the body shared by get_ax_fig_plt (fig.add_subplot(1, 1, 1)) and
\* get_ax3d_fig_plt (axes3d.Axes3D(fig)); the result is (ax, fig, plt)
ax_fig_body(L, ax, proj, f) ==
    IF ax = None
    THEN LET A == figure(L, <<>>)
             B == add_axes(A, A.current, proj, f)
         IN [L |-> B, ret |-> <<Ax(curax(B)), Fig(B.current), Plt>>]
    ELSE LET A == gcf(L)
         IN [L |-> A, ret |-> <<ax, Fig(A.current), Plt>>]

AxFigCall(op, ax, proj, f) ==
    LET R == ax_fig_body(Lib, ax, proj, f)
    IN /\ Len(R.L.figs) <= MaxFigs
       /\ SetLib(R.L)
       /\ last' = [op |-> op, args |-> [ax |-> ax], ret |-> R.ret, exc |-> "",
                   log |-> R.L.log, pre |-> Pre]
       /\ UNCHANGED <<dicts, consumed>>

get_ax_fig_plt == \E ax \in AxArgs : AxFigCall("get_ax_fig_plt", ax, "2d", "add_subplot")

get_ax3d_fig_plt == \E ax \in AxArgs : AxFigCall("get_ax3d_fig_plt", ax, "3d", "Axes3D")

(* -------------------------- get_axarray_fig_plt ------------------------ *)
RECURSIVE add_grid(_, _, _)
\* the n axes plt.subplots adds to figure fig
add_grid(L, fig, n) ==
    IF n = 0 THEN L ELSE add_grid(add_axes(L, fig, "2d", "add_subplot"), fig, n - 1)

\* plt.subplots(nrows, ncols, squeeze=...): a new figure and its grid of axes
subplots(L, nrows, ncols, squeeze) ==
    LET A == figure(L, <<>>)
        B == add_grid(A, A.current, nrows * ncols)
        data == [i \in 1..(nrows * ncols) |-> Ax(Len(L.axes) + i)]
        arr == IF ~Truthy(squeeze) THEN Array(<<nrows, ncols>>, data)
               ELSE IF nrows * ncols = 1 THEN data[1]
               ELSE IF nrows = 1 \/ ncols = 1 THEN Array(<<nrows * ncols>>, data)
               ELSE Array(<<nrows, ncols>>, data)
    IN [L |-> libcall(B, "subplots", "plt", <<PyInt(nrows), PyInt(ncols), squeeze>>),
        ret |-> arr]

\* np.array(x).ravel(): the elements of x in one dimension
ravel(x) ==
    IF x.t = "array" THEN Array(<<Len(x.data)>>, x.data) ELSE Array(<<1>>, <<x>>)

IndexError == [t |-> "exc", v |-> "IndexError"]

\* a[i] on a one-dimensional array, Python's index counting from 0
getitem(a, i) == IF i < Len(a.data) THEN a.data[i + 1] ELSE IndexError

axarray_body(L, ax_array, nrows, ncols, squeeze) ==
    IF ax_array = None
    THEN LET R == subplots(L, nrows, ncols, squeeze)
         IN [L |-> R.L, ret |-> <<R.ret, Fig(R.L.current), Plt>>, exc |-> ""]
    ELSE LET A == gcf(L)
             flat == ravel(ax_array)
             item == getitem(flat, 1)
         IN IF ~Truthy(squeeze)
            THEN [L |-> A, ret |-> <<ax_array, Fig(A.current), Plt>>, exc |-> ""]
            ELSE IF Len(flat.data) # 1
            THEN [L |-> A, ret |-> <<flat, Fig(A.current), Plt>>, exc |-> ""]
            ELSE IF item = IndexError
            THEN [L |-> A, ret |-> None, exc |-> "IndexError"]
            ELSE [L |-> A, ret |-> <<item, Fig(A.current), Plt>>, exc |-> ""]

\* runs of existing axes, as a list, a row or a column
AxRuns ==
    {[k \in 1..n |-> Ax(i + k - 1)] :
        i \in 1..Len(axes), n \in 1..MaxAxArray} \ {<<>>}

AxArrayArgs ==
    {None} \cup {Ax(i) : i \in 1..Len(axes)}
    \cup {Array(<<Len(d)>>, d) : d \in {r \in AxRuns : r[Len(r)].v <= Len(axes)}}
    \cup {Array(<<1, Len(d)>>, d) : d \in {r \in AxRuns : r[Len(r)].v <= Len(axes)}}

get_axarray_fig_plt ==
    \E ax_array \in AxArrayArgs, nrows \in 1..MaxGrid, ncols \in 1..MaxGrid,
       squeeze \in {Bool(TRUE), Bool(FALSE)} :
        LET R == axarray_body(Lib, ax_array, nrows, ncols, squeeze)
        IN /\ ax_array # None => nrows = 1 /\ ncols = 1
           /\ Len(R.L.figs) <= MaxFigs
           /\ SetLib(R.L)
           /\ last' = [op |-> "get_axarray_fig_plt",
                       args |-> [ax_array |-> ax_array, nrows |-> nrows,
                                 ncols |-> ncols, squeeze |-> squeeze],
                       ret |-> R.ret, exc |-> R.exc, log |-> R.L.log, pre |-> Pre]
           /\ UNCHANGED <<dicts, consumed>>

(* ------------------------ add_fig_kwargs.wrapper ----------------------- *)
OptionKeys == {"title", "size_kwargs", "show", "savefig", "tight_layout"}

\* kwargs.pop(key, default)
pop(kwargs, key, default) ==
    IF key \in DOMAIN kwargs THEN kwargs[key] ELSE default

\* the dictionary d once key has been popped from it
without(d, key) == [k \in (DOMAIN d) \ {key} |-> d[k]]

\* the pops with the one of "show" left out
popped_keeps_show(kwargs) ==
    [k \in (DOMAIN kwargs) \ (OptionKeys \ {"show"}) |-> kwargs[k]]

\* kwargs after the five pops of the decorator
popped(kwargs) == [k \in (DOMAIN kwargs) \ OptionKeys |-> kwargs[k]]

\* fig = func(*args, **kwargs): the call, and the object it comes back with
func(args, kwargs, fret) ==
    [log |-> <<Call("func", "func", <<args, kwargs>>)>>, fig |-> fret]

\* the wrapper without its early return
never_immediately(fig) == FALSE

\* if fig is None: return fig
returns_immediately(fig) == fig = None

\* if title is not None: fig.suptitle(title)
do_title(st, fig, title) ==
    IF title # None
    THEN [st EXCEPT !.log = Append(@, Call("suptitle", fig, <<title>>))]
    ELSE st

\* the size step reading "w" and "h" without removing them
do_size_get(st, fig, size_kwargs) ==
    IF size_kwargs = None THEN st
    ELSE LET d0 == st.dicts[size_kwargs.v]
         IN IF "w" \notin DOMAIN d0 \/ "h" \notin DOMAIN d0
            THEN [st EXCEPT !.exc = "KeyError"]
            ELSE [st EXCEPT !.log = Append(@, Call("set_size_inches", fig,
                                                   <<d0["w"], d0["h"], d0>>))]

\* if size_kwargs is not None:
\*     fig.set_size_inches(size_kwargs.pop("w"), size_kwargs.pop("h"), **size_kwargs)
do_size(st, fig, size_kwargs) ==
    IF size_kwargs = None THEN st
    ELSE LET d == size_kwargs.v
             d0 == st.dicts[d]
             d1 == without(d0, "w")
             d2 == without(d1, "h")
         IN IF "w" \notin DOMAIN d0 THEN [st EXCEPT !.exc = "KeyError"]
            ELSE IF "h" \notin DOMAIN d1
            THEN [st EXCEPT !.exc = "KeyError", !.dicts[d] = d1]
            ELSE [st EXCEPT !.dicts[d] = d2,
                            !.log = Append(@, Call("set_size_inches", fig,
                                                   <<d0["w"], d1["h"], d2>>))]

\* the save step without its test of savefig
do_savefig_always(st, fig, savefig) ==
    IF st.exc = ""
    THEN [st EXCEPT !.log = Append(@, Call("savefig", fig, <<savefig>>))]
    ELSE st

\* if savefig: fig.savefig(savefig)
do_savefig(st, fig, savefig) ==
    IF st.exc = "" /\ Truthy(savefig)
    THEN [st EXCEPT !.log = Append(@, Call("savefig", fig, <<savefig>>))]
    ELSE st

\* if tight_layout: fig.tight_layout()
do_tight_layout(st, fig, tight_layout) ==
    IF st.exc = "" /\ Truthy(tight_layout)
    THEN [st EXCEPT !.log = Append(@, Call("tight_layout", fig, <<>>))]
    ELSE st

\* the show step without its test of show
do_show_always(st, show) ==
    IF st.exc = ""
    THEN [st EXCEPT !.log = Append(@, Call("show", "plt", <<>>))]
    ELSE st

\* if show: plt.show()
do_show(st, show) ==
    IF st.exc = "" /\ Truthy(show)
    THEN [st EXCEPT !.log = Append(@, Call("show", "plt", <<>>))]
    ELSE st

\* return fig, unless an exception left the wrapper before
returned(st, fig) == IF st.exc = "" THEN fig ELSE None

\* the statements with the save moved behind tight_layout and show
post_save_last(st, fig, title, size_kwargs, savefig, tight_layout, show) ==
    do_savefig(do_show(do_tight_layout(do_size(do_title(st, fig, title),
                                               fig, size_kwargs),
                                       fig, tight_layout),
                       show),
               fig, savefig)

\* the statements that operate on the figure, in the order of the code
post(st, fig, title, size_kwargs, savefig, tight_layout, show) ==
    do_show(do_tight_layout(do_savefig(do_size(do_title(st, fig, title),
                                               fig, size_kwargs),
                                       fig, savefig),
                            fig, tight_layout),
            show)

wrapper_body(args, kwargs, fret, ds) ==
    LET title == pop(kwargs, "title", None)
        size_kwargs == pop(kwargs, "size_kwargs", None)
        show == pop(kwargs, "show", Bool(TRUE))
        savefig == pop(kwargs, "savefig", None)
        tight_layout == pop(kwargs, "tight_layout", Bool(FALSE))
        F == func(args, popped(kwargs), fret)
        fig == F.fig
        s0 == [log |-> F.log, dicts |-> ds, exc |-> ""]
        s5 == post(s0, fig, title, size_kwargs, savefig, tight_layout, show)
    IN IF returns_immediately(fig)
       THEN [log |-> s0.log, dicts |-> ds, exc |-> "", ret |-> fig]
       ELSE [log |-> s5.log, dicts |-> s5.dicts, exc |-> s5.exc,
             ret |-> returned(s5, fig)]

\* the dictionary objects the caller holds
DictIds == {1}

\* the keyword arguments of a call: each key is given a value or left out
given(full) == [k \in {x \in DOMAIN full : full[x] # Omitted} |-> full[k]]

KwargsSpace ==
    [title : {Omitted, Str(""), Str("T")},
     size_kwargs : {Omitted} \cup {Dict(d) : d \in DictIds},
     show : {Omitted, Bool(TRUE), Bool(FALSE)},
     savefig : {Omitted, None, Str("x.png")},
     tight_layout : {Omitted, Bool(TRUE)},
     color : {Str("r")}]

ArgsSpace == {<<Str("a")>>}
FuncResults == {None, Fig(1)}

\* the dictionaries a caller may hold: dict(w=3, h=4) with or without
\* either key, and with or without a further option
DictValue == [w |-> PyInt(3), h |-> PyInt(4), forward |-> Bool(TRUE)]
DictSpace ==
    {[k \in S |-> DictValue[k]] : S \in {{"w", "h"}, {"w", "h", "forward"}, {"w"}, {"h"}}}

wrapper ==
    \E full \in KwargsSpace, args \in ArgsSpace, fret \in FuncResults :
        LET kwargs == given(full)
            R == wrapper_body(args, kwargs, fret, dicts)
            sk == pop(kwargs, "size_kwargs", None)
        IN /\ dicts' = R.dicts
           /\ consumed' = IF sk # None /\ R.ret # None
                          THEN consumed \cup {sk.v} ELSE consumed
           /\ last' = [op |-> "wrapper", args |-> args, kwargs |-> kwargs,
                       fret |-> fret, ret |-> R.ret, exc |-> R.exc,
                       log |-> R.log, before |-> dicts, was |-> consumed]
           /\ UNCHANGED <<figs, axes, current>>

(* --------------------------- specifications ---------------------------- *)
NoCall == [op |-> "none", exc |-> "", log |-> <<>>]

\* pyplot as the program may find it: no figure yet, or a figure the caller
\* has made, bare or with one axes whose title and labels may be set, or no
\* figure of pyplot's but an axes of a figure the caller built without pyplot
InitLib ==
    \/ figs = <<>> /\ axes = <<>> /\ current = 0
    \/ figs = <<[curax |-> 0]>> /\ axes = <<>> /\ current = 1
    \/ /\ figs = <<[curax |-> 1]>>
       /\ current = 1
       /\ \E txt \in {<<"", "", "">>, <<"T", "X", "Y">>} :
            axes = <<[fig |-> 1, proj |-> "2d", title |-> txt[1],
                      xlabel |-> txt[2], ylabel |-> txt[3]]>>
    \/ /\ figs = <<>>
       /\ current = 0
       /\ axes = <<[fig |-> 0, proj |-> "2d", title |-> "T",
                    xlabel |-> "X", ylabel |-> "Y"]>>

\* the caller's dictionary, as in the example size_kwargs=dict(w=3, h=4)
InitHelpers ==
    /\ InitLib
    /\ dicts = [d \in DictIds |-> [w |-> PyInt(3), h |-> PyInt(4)]]
    /\ consumed = {}
    /\ last = NoCall

InitDeco ==
    /\ figs = <<>> /\ axes = <<>> /\ current = 0
    /\ dicts \in [DictIds -> DictSpace]
    /\ consumed = {}
    /\ last = NoCall

Init == InitHelpers \/ InitDeco

NextPretty == pretty_plot

NextHandles == pretty_plot \/ get_ax_fig_plt \/ get_ax3d_fig_plt

NextAxarray == get_axarray_fig_plt

NextDeco == wrapper

Next ==
    \/ NextPretty \/ get_publication_quality_plot
    \/ NextHandles \/ NextAxarray \/ NextDeco

Spec == Init /\ [][Next]_vars

SpecPretty == InitHelpers /\ [][NextPretty]_vars

SpecHandles == InitHelpers /\ [][NextHandles]_vars

SpecAxarray == InitHelpers /\ [][NextAxarray]_vars

SpecDeco == InitDeco /\ [][NextDeco]_vars

(* ----------------------- properties: the decorator --------------------- *)
Idx(f) == {i \in 1..Len(last.log) : last.log[i].f = f}
Times(f) == Cardinality(Idx(f))
WrapperCalled == last.op = "wrapper"
\* the wrapped function came back with a figure
FuncGaveFigure == WrapperCalled /\ last.fret # None
\* the decorated function returned a figure to its caller
FigureReturned == WrapperCalled /\ last.ret # None
Passed(key) == key \in DOMAIN last.kwargs
PassedAs(key, val) == Passed(key) /\ last.kwargs[key] = val
DecoratorOptions == {"title", "size_kwargs", "show", "savefig", "tight_layout"}
SizeDictBefore == last.before[last.kwargs.size_kwargs.v]
LacksKey == "w" \notin DOMAIN SizeDictBefore \/ "h" \notin DOMAIN SizeDictBefore
Rank(f) ==
    CASE f = "func" -> 0
      [] f = "suptitle" -> 1
      [] f = "set_size_inches" -> 2
      [] f = "savefig" -> 3
      [] f = "tight_layout" -> 4
      [] f = "show" -> 5
      [] OTHER -> 6

\* C1: when the decorated function returns a figure, plt.show has been called
\* exactly once if show was omitted or true, and not at all if show=False.
C1_ShowOnceOrNever ==
    FigureReturned =>
        /\ (~Passed("show") \/ PassedAs("show", Bool(TRUE))) => Times("show") = 1
        /\ PassedAs("show", Bool(FALSE)) => Times("show") = 0

C1_Witness ==
    /\ FigureReturned
    /\ ~Passed("show")
    /\ Passed("size_kwargs")
    /\ Times("show") = 1

\* C2: when the decorated function returns a figure, savefig="x.png" has made
\* exactly one savefig call, on the returned figure and with that path, and
\* no savefig call is made when savefig is omitted or None.
C2_SaveOnceWithPath ==
    FigureReturned =>
        /\ PassedAs("savefig", Str("x.png")) =>
              /\ Times("savefig") = 1
              /\ \A i \in Idx("savefig") :
                    last.log[i] = Call("savefig", last.ret, <<Str("x.png")>>)
        /\ (~Passed("savefig") \/ PassedAs("savefig", None)) => Times("savefig") = 0

C2_Witness ==
    /\ FigureReturned
    /\ PassedAs("savefig", Str("x.png"))
    /\ Times("savefig") = 1

\* C4: when the wrapped function returns None the wrapper returns None, with
\* no exception and no call on a figure or of plt.show, whatever the options.
C4_NoneReturnsAtOnce ==
    (WrapperCalled /\ last.fret = None) =>
        /\ last.ret = None
        /\ last.exc = ""
        /\ Len(last.log) = 1 /\ last.log[1].f = "func"
        /\ dicts = last.before

C4_Witness ==
    /\ WrapperCalled /\ last.fret = None
    /\ Passed("title") /\ Passed("size_kwargs") /\ Passed("tight_layout")
    /\ PassedAs("savefig", Str("x.png"))
    /\ ~Passed("show")
    /\ last.ret = None
    /\ LacksKey

\* C5: the wrapper calls the wrapped function exactly once, with the
\* positional arguments unchanged and with the keyword arguments less the five
\* decorator options, each other keyword keeping its value.
C5_FuncCalledOnceWithoutOptions ==
    WrapperCalled =>
        /\ Times("func") = 1
        /\ \A i \in Idx("func") :
              /\ last.log[i].a[1] = last.args
              /\ DOMAIN last.log[i].a[2] = (DOMAIN last.kwargs) \ DecoratorOptions
              /\ \A k \in DOMAIN last.log[i].a[2] : last.log[i].a[2][k] = last.kwargs[k]

C5_Witness ==
    /\ WrapperCalled
    /\ DecoratorOptions \subseteq DOMAIN last.kwargs
    /\ PassedAs("color", Str("r"))
    /\ Times("func") = 1

\* C9: the calls on the figure come after the call of the wrapped function and
\* in the order suptitle, set_size_inches, savefig, tight_layout, show, each at
\* most once; when the decorated function returns a figure, each enabled call
\* was made (suptitle also for an empty title) and the figure returned is the
\* one the wrapped function returned.
C9_PostProcessingOrder ==
    FuncGaveFigure =>
        /\ last.log[1].f = "func"
        /\ \A i, j \in 1..Len(last.log) :
              i < j => Rank(last.log[i].f) < Rank(last.log[j].f)
        /\ last.ret # None =>
              /\ last.ret = last.fret
              /\ Times("suptitle") = 1 <=> Passed("title")
              /\ Times("set_size_inches") = 1 <=> Passed("size_kwargs")
              /\ Times("savefig") = 1 <=> PassedAs("savefig", Str("x.png"))
              /\ Times("tight_layout") = 1 <=> PassedAs("tight_layout", Bool(TRUE))
              /\ Times("show") = 1 <=> ~PassedAs("show", Bool(FALSE))

C9_Witness ==
    /\ FigureReturned
    /\ PassedAs("title", Str(""))
    /\ [i \in 1..Len(last.log) |-> last.log[i].f]
         = <<"func", "suptitle", "set_size_inches", "savefig", "tight_layout", "show">>

\* C10 as first stated: every call whose size_kwargs lacks "w" or "h" fails
\* with a key error, also when the wrapped function returns None.
C10_AnyCallFails ==
    (WrapperCalled /\ Passed("size_kwargs") /\ LacksKey) => last.exc = "KeyError"

\* C10: size_kwargs is consumed.  After a call that returned a figure the
\* dictionary passed holds neither "w" nor "h", and what is left of it was
\* given to set_size_inches as keyword options; when the wrapped function
\* returns a figure, a call with a dictionary that lacks "w" or "h", as a
\* dictionary passed before does, fails with a key error after the wrapped
\* function ran and the title was applied, before any resize, save,
\* tight_layout or show.
C10_SizeKwargsConsumed ==
    (WrapperCalled /\ Passed("size_kwargs")) =>
        LET d == last.kwargs.size_kwargs.v
            rest == [k \in (DOMAIN SizeDictBefore) \ {"w", "h"} |-> SizeDictBefore[k]]
        IN /\ last.ret # None =>
                /\ dicts[d] = rest
                /\ \A i \in Idx("set_size_inches") :
                      last.log[i].a = <<SizeDictBefore["w"], SizeDictBefore["h"], rest>>
           /\ (last.fret # None /\ (LacksKey \/ d \in last.was)) =>
                /\ last.exc = "KeyError"
                /\ Times("func") = 1
                /\ Times("suptitle") = (IF Passed("title") THEN 1 ELSE 0)
                /\ Len(last.log) = 1 + Times("suptitle")

C10_Witness ==
    /\ WrapperCalled /\ Passed("size_kwargs")
    /\ last.kwargs.size_kwargs.v \in last.was
    /\ last.exc = "KeyError"
    /\ Times("suptitle") = 1
    /\ PassedAs("savefig", Str("x.png"))

(* ------------------------ properties: the helpers ---------------------- *)
PrettyCalled == last.op = "pretty_plot"
AxCalled == last.op \in {"get_ax_fig_plt", "get_ax3d_fig_plt"}
AxarrayCalled == last.op = "get_axarray_fig_plt"
\* the figures pyplot has gained during the call
Created == Len(figs) - Len(last.pre.figs)
NoHeight == last.args.height = None \/ last.args.height = Num(0)
\* the calls that give the figure its size
SizeCalls ==
    {i \in 1..Len(last.log) : last.log[i].f \in {"figure", "set_size_inches"}}
\* k is the whole number with k <= num / den < k + 1
Truncates(v, num, den) ==
    /\ v.t = "num" /\ v.v % Scale = 0
    /\ LET k == v.v \div Scale IN den * k <= num /\ num < den * (k + 1)
TextsKept ==
    /\ \A i \in 1..Len(last.pre.axes) : axes[i] = last.pre.axes[i]
    /\ \A i \in 1..Len(last.log) :
          last.log[i].f \in {"set_title", "set_xlabel", "set_ylabel"} =>
              LET a == last.log[i].on.v
                  old == IF a <= Len(last.pre.axes)
                         THEN last.pre.axes[a]
                         ELSE [title |-> "", xlabel |-> "", ylabel |-> ""]
              IN last.log[i].a[1] =
                    Str(CASE last.log[i].f = "set_title" -> old.title
                          [] last.log[i].f = "set_xlabel" -> old.xlabel
                          [] OTHER -> old.ylabel)

C8_ExactlyLinear ==
    PrettyCalled =>
        LET n == last.args.width.v
        IN /\ \A i \in Idx("xticks") \cup Idx("yticks") : 2 * last.log[i].a[1].v = 5 * n
           /\ \A i \in Idx("set_xlabel") \cup Idx("set_ylabel") : last.log[i].a[2].v = 3 * n
           /\ \A i \in Idx("set_title") : last.log[i].a[2].v = 4 * n
           /\ TextsKept

\* C8: pretty_plot sets the x and y tick font size to 2.5 * width cut down to
\* a whole number, the x and y label size to 3 * width cut down to a whole
\* number and the title size to 4 * width, each once, and gives the title
\* and the labels the texts they had.
C8_FontSizes ==
    PrettyCalled =>
        LET n == last.args.width.v
        IN /\ Times("xticks") = 1 /\ Times("yticks") = 1
           /\ Times("set_xlabel") = 1 /\ Times("set_ylabel") = 1
           /\ Times("set_title") = 1
           /\ \A i \in Idx("xticks") \cup Idx("yticks") :
                 Truncates(last.log[i].a[1], 5 * n, 2 * Scale)
           /\ \A i \in Idx("set_xlabel") \cup Idx("set_ylabel") :
                 Truncates(last.log[i].a[2], 3 * n, Scale)
           /\ \A i \in Idx("set_title") : last.log[i].a[2] = Num(4 * n)
           /\ TextsKept

C8_Witness ==
    /\ PrettyCalled
    /\ last.args.width = PyInt(3)
    /\ last.args.plt = Plt
    /\ \E i \in Idx("xticks") : last.log[i].a[1] = PyInt(7)
    /\ \E i \in Idx("set_title") : last.log[i].a = <<Str("T"), PyInt(12)>>

\* the part of C6 that holds whether or not pyplot has a current figure
HandleDecidesCall ==
    /\ PrettyCalled =>
          /\ Times("figure") = (IF last.args.plt = None THEN 1 ELSE 0)
          /\ Times("set_prop_cycle") = Times("figure")
          /\ Times("set_size_inches") = 1 - Times("figure")
          /\ \A i \in SizeCalls :
                /\ last.log[i].a[1] = last.args.width
                /\ ~NoHeight => last.log[i].a[2] = last.args.height
          /\ \A i \in Idx("set_size_inches") : last.log[i].on = Fig(current)
    /\ AxCalled =>
          /\ Times("figure") = (IF last.args.ax = None THEN 1 ELSE 0)
          /\ last.ret[2] = Fig(current) /\ last.ret[3] = Plt
          /\ last.args.ax = None =>
                /\ Len(axes) = Len(last.pre.axes) + 1
                /\ last.ret[1] = Ax(Len(axes))
                /\ axes[Len(axes)].fig = current
          /\ last.args.ax # None =>
                /\ last.ret[1] = last.args.ax
                /\ axes = last.pre.axes

\* C6 as first stated: a figure is made if and only if no handle is passed.
C6_CreatedIffNoHandle ==
    /\ HandleDecidesCall
    /\ PrettyCalled => Created = (IF last.args.plt = None THEN 1 ELSE 0)
    /\ PrettyCalled /\ last.args.plt # None => current = last.pre.current
    /\ AxCalled => Created = (IF last.args.ax = None THEN 1 ELSE 0)
    /\ AxCalled /\ last.args.ax # None => current = last.pre.current

\* C6: pretty_plot calls plt.figure (size (width, height), then the colour
\* cycle) only when plt is None, get_ax_fig_plt and get_ax3d_fig_plt call it
\* and add an axes only when ax is None; with a handle they take the figure
\* of plt.gcf(), which pretty_plot resizes to (width, height) and the other
\* two return with the very ax passed.  That figure is pyplot's current one
\* and nothing is made, unless pyplot has no current figure: then one is made.
C6_HandleOrNewFigure ==
    /\ HandleDecidesCall
    /\ PrettyCalled =>
          Created = (IF last.args.plt = None \/ last.pre.current = 0 THEN 1 ELSE 0)
    /\ AxCalled =>
          Created = (IF last.args.ax = None \/ last.pre.current = 0 THEN 1 ELSE 0)
    /\ (PrettyCalled /\ last.args.plt # None /\ last.pre.current # 0) =>
          current = last.pre.current
    /\ (AxCalled /\ last.args.ax # None /\ last.pre.current # 0) =>
          current = last.pre.current

C6_Witness ==
    /\ AxCalled
    /\ last.args.ax # None
    /\ last.pre.current # 0
    /\ Created = 0
    /\ last.ret = <<last.args.ax, Fig(last.pre.current), Plt>>

\* C7: for every ax_array that is not None get_axarray_fig_plt returns
\* (axes, current figure, plt) and makes no figure; the axes are ax_array
\* itself with squeeze=False and, with squeeze=True, ax_array in one
\* dimension, or its one element when it has only one.
C7_ReturnsAxes ==
    (AxarrayCalled /\ last.args.ax_array # None) =>
        LET x == last.args.ax_array
            flat == IF x.t = "array" THEN x.data ELSE <<x>>
        IN /\ last.exc = ""
           /\ last.ret[2] = Fig(current) /\ last.ret[3] = Plt
           /\ last.args.squeeze = Bool(FALSE) => last.ret[1] = x
           /\ last.args.squeeze = Bool(TRUE) =>
                 last.ret[1] = (IF Len(flat) = 1 THEN flat[1]
                                ELSE Array(<<Len(flat)>>, flat))
           /\ Created = 0

====
